---- MODULE Spec2Model ----
(***************************************************************************)
(* Model of holoviews_sankey: the batch create_sankeys_from_dict, the      *)
(* per-sheet create_and_save_sankey, the command-line entry point main()   *)
(* and the edge-label formatter fmt.                                       *)
(*                                                                         *)
(* Text (titles, paths) is a sequence of one-character strings.  A Python  *)
(* optional value is a sequence of length at most one: None is << >>.      *)
(***************************************************************************)
EXTENDS Integers, Sequences, FiniteSets, TLC

VARIABLES
    entry,        \* "main" (python -m holoviews_sankey) or "api" (direct call)
    argFile,      \* --file / the caller's input file path
    argDir,       \* --output_dir / the caller's output directory
    sheets,       \* keys of df_dict, in iteration order
    cfg,          \* **kwargs: show_plot, export_title, title_max_chars
    file,         \* parameter `file` of create_sankeys_from_dict
    output_dir,   \* parameter `output_dir` of create_sankeys_from_dict
    pc,           \* position in the code
    idx,          \* index of the sheet the for loop is at
    filename,     \* local `filename` of the loop body
    web_driver,   \* local `web_driver` of create_and_save_sankey
    made,         \* number of webdrivers created so far (they are 1..made)
    quits,        \* webdrivers on which quit() was called, in call order
    calls,        \* per started sheet: its webdriver and the step that raised
    exc,          \* the exception in flight, if any (its raising step)
    bkplot,       \* local `bkplot`
    sankey_list,  \* local `sankey_list` of create_sankeys_from_dict
    dir_exists,   \* os.path.exists(abspath(dirname(filename)))
    exports,      \* calls of export_png / export_svgs, in call order
    target,       \* bokeh's current output_file target
    pages,        \* html pages written by show()
    log,          \* records emitted through logger
    result,       \* return value of create_sankeys_from_dict
    fx, fdecimals, funit, fpoint, fout, fpc   \* one call of fmt(x)

batchVars == <<entry, argFile, argDir, sheets, cfg, file, output_dir, pc, idx,
               filename, web_driver, made, quits, calls, exc, bkplot, sankey_list,
               dir_exists, exports, target, pages, log, result>>
fmtVars == <<fx, fdecimals, funit, fpoint, fout, fpc>>
vars == <<batchVars, fmtVars>>

None == << >>
Some(v) == <<v>>

\* Largest number of sheets in df_dict.
MaxSheets == 2
\* Largest value of `decimals`.
MaxDecimals == 2

---------------------------------------------------------------------------
(* Text helpers *)

Str(s) == s                       \* str(sheet_name): sheet names are text

Take(s, n) == SubSeq(s, 1, IF n < Len(s) THEN n ELSE Len(s))

\* s[:n] for n >= 0
SliceTo(s, n) == Take(s, n)

\* position of the last occurrence of character c in s, 0 if none
RECURSIVE LastIndex(_, _, _)
LastIndex(s, c, i) ==
    IF i = 0 THEN 0
    ELSE IF s[i] = c THEN i
    ELSE LastIndex(s, c, i - 1)

\* os.path.basename: what follows the last separator
basename(p) == SubSeq(p, LastIndex(p, "/", Len(p)) + 1, Len(p))

\* os.path.splitext(p)[0]: the extension starts at the last dot of the last
\* component, unless that dot leads the component
splitext0(p) ==
    LET sep == LastIndex(p, "/", Len(p))
        dot == LastIndex(p, ".", Len(p))
    IN  IF dot > sep + 1 THEN SubSeq(p, 1, dot - 1) ELSE p

\* os.path.join(a, b)
join(a, b) ==
    IF b # << >> /\ b[1] = "/" THEN b
    ELSE IF a = << >> \/ a[Len(a)] = "/" THEN a \o b
    ELSE a \o <<"/">> \o b

Html == <<".", "h", "t", "m", "l">>
Png  == <<".", "p", "n", "g">>
Svg  == <<".", "s", "v", "g">>

\* lines 96-99: same name as the input file, plus sheet_name
SheetFilename(out, f, sheet_name) ==
    join(out, splitext0(basename(f)) \o <<" ">> \o Str(sheet_name))

\* lines 111-113: the combined page
CombinedFilename(out, f) == join(out, splitext0(basename(f)) \o Html)

---------------------------------------------------------------------------
(* Inputs *)

SheetNames == { <<"A">>, <<"B", "b">>, <<"C", "c", "c">> }

RECURSIVE Orders(_)
Orders(n) ==
    IF n = 0 THEN { << >> }
    ELSE Orders(n - 1) \cup
         { Append(s, x) : s \in { t \in Orders(n - 1) : Len(t) = n - 1 },
                          x \in SheetNames }

\* a dict has no duplicate keys
DfDicts == { s \in Orders(MaxSheets) :
               \A i, j \in 1..Len(s) : i # j => s[i] # s[j] }

Files == { <<"i", "n", "/", "S", ".", "x", "l", "s", "x">> }
Dirs  == { <<".", "/", "o", "u", "t">> }

Configs ==
    { [show_plot |-> FALSE, export_title |-> FALSE, title_max_chars |-> None],
      [show_plot |-> FALSE, export_title |-> TRUE,  title_max_chars |-> None],
      [show_plot |-> FALSE, export_title |-> TRUE,  title_max_chars |-> Some(2)],
      [show_plot |-> TRUE,  export_title |-> TRUE,  title_max_chars |-> Some(0)] }

NoPlot == [sheet |-> << >>, title |-> << >>, output_backend |-> "none",
           sizing_mode |-> "none"]

---------------------------------------------------------------------------
(* create_and_save_sankey: the pieces the actions are built from *)

\* lines 228-234: the title the plot carries after the build
ExportTitle(title, c) ==
    IF c.export_title
    THEN IF c.title_max_chars # None
         THEN SliceTo(Str(title), c.title_max_chars[1])
         ELSE Str(title)
    ELSE << >>

\* the page title left as the export made it
PageTitleKept(title, plot) == plot.title

\* line 255: bkplot.title.text = str(title)
PageTitle(title, plot) == Str(title)

\* the exports called without the webdriver argument
WebdriverArgOmitted(wd) == None

\* lines 242, 247: the keyword argument webdriver=web_driver
WebdriverArg(wd) == wd

\* export_png called outside any try
AfterExportPngUnguarded(ok) == IF ok THEN "svg" ELSE "except"

\* lines 243-244: except Exception around export_png
AfterExportPng(ok) == "svg"

\* lines 248-249: except Exception around export_svgs
AfterExportSvg(ok) == "quit"

\* quit() called without the test for None
ShouldQuitAlways(wd) == TRUE

\* line 251: if web_driver is not None
ShouldQuit(wd) == wd # None

\* the result put in front of the list
AddResultFront(list, plot) == <<plot>> \o list

\* line 104: sankey_list += [bkplot]
AddResult(list, plot) == list \o <<plot>>

\* the except clause re-raising
AfterSheetExceptReraise == "raised"

\* lines 106-108: the except clause of the loop body swallows the exception
AfterSheetExcept == "loop"

\* line 118
BatchReturn == TRUE

Raise(cause) ==
    /\ exc' = Some(cause)
    /\ calls' = [calls EXCEPT ![idx].raised = Some(cause)]
    /\ pc' = "except"

LogRec(level, sheet, cause) == [level |-> level, sheet |-> sheet, cause |-> cause]

---------------------------------------------------------------------------
(* Entry points *)

\* __main__.py lines 6-23: main() passes (df_dict, output_dir, file_load)
\* to create_sankeys_from_dict(df_dict, file, output_dir)
Main ==
    /\ pc = "start" /\ entry = "main"
    /\ file' = argDir
    /\ output_dir' = argFile
    /\ pc' = "loop"
    /\ UNCHANGED <<entry, argFile, argDir, sheets, cfg, idx, filename,
                   web_driver, made, quits, calls, exc, bkplot, sankey_list,
                   dir_exists, exports, target, pages, log, result, fmtVars>>

\* a caller of create_sankeys_from_dict(df_dict, file, output_dir, **kwargs)
ApiCall ==
    /\ pc = "start" /\ entry = "api"
    /\ file' = argFile
    /\ output_dir' = argDir
    /\ pc' = "loop"
    /\ UNCHANGED <<entry, argFile, argDir, sheets, cfg, idx, filename,
                   web_driver, made, quits, calls, exc, bkplot, sankey_list,
                   dir_exists, exports, target, pages, log, result, fmtVars>>

---------------------------------------------------------------------------
(* create_sankeys_from_dict, lines 87-118 *)

\* lines 90-103: the next sheet, its filename, the call
LoopNext ==
    /\ pc = "loop" /\ idx < Len(sheets)
    /\ idx' = idx + 1
    /\ filename' = SheetFilename(output_dir, file, sheets[idx + 1])
    /\ calls' = Append(calls, [sheet |-> sheets[idx + 1], web_driver |-> None,
                               raised |-> None])
    /\ pc' = "acquire"
    /\ UNCHANGED <<entry, argFile, argDir, sheets, cfg, file, output_dir,
                   web_driver, made, quits, exc, bkplot, sankey_list,
                   dir_exists, exports, target, pages, log, result, fmtVars>>

\* lines 160-171: webdriver.create_firefox_webdriver() or None
Acquire ==
    /\ pc = "acquire"
    /\ \E ok \in BOOLEAN :
         IF ok
         THEN /\ made' = made + 1
              /\ web_driver' = Some(made + 1)
              /\ calls' = [calls EXCEPT ![idx].web_driver = Some(made + 1)]
              /\ log' = log
         ELSE /\ made' = made
              /\ web_driver' = None
              /\ calls' = calls
              /\ log' = Append(log, LogRec("exception", None, "webdriver"))
    /\ pc' = "build"
    /\ UNCHANGED <<entry, argFile, argDir, sheets, cfg, file, output_dir, idx,
                   filename, quits, exc, bkplot, sankey_list, dir_exists,
                   exports, target, pages, result, fmtVars>>

\* lines 173-234: hv.Sankey, BokehRenderer.get_plot, toolbar, export title
Build ==
    /\ pc = "build"
    /\ \E ok \in BOOLEAN :
         IF ok
         THEN /\ bkplot' = [sheet |-> sheets[idx],
                            title |-> ExportTitle(sheets[idx], cfg),
                            output_backend |-> "canvas",
                            sizing_mode |-> "fixed"]
              /\ pc' = "makedirs"
              /\ UNCHANGED <<exc, calls>>
         ELSE /\ bkplot' = bkplot
              /\ Raise("build")
    /\ UNCHANGED <<entry, argFile, argDir, sheets, cfg, file, output_dir, idx,
                   filename, web_driver, made, quits, sankey_list, dir_exists,
                   exports, target, pages, log, result, fmtVars>>

\* lines 236-239: create the output folder if it does not exist
Makedirs ==
    /\ pc = "makedirs"
    /\ IF dir_exists
       THEN /\ pc' = "png"
            /\ UNCHANGED <<dir_exists, exc, calls>>
       ELSE \E ok \in BOOLEAN :
              IF ok
              THEN /\ dir_exists' = TRUE
                   /\ pc' = "png"
                   /\ UNCHANGED <<exc, calls>>
              ELSE /\ dir_exists' = dir_exists
                   /\ Raise("makedirs")
    /\ UNCHANGED <<entry, argFile, argDir, sheets, cfg, file, output_dir, idx,
                   filename, web_driver, made, quits, bkplot, sankey_list,
                   exports, target, pages, log, result, fmtVars>>

\* lines 241-244: export_png inside try / except Exception
ExportPng ==
    /\ pc = "png"
    /\ \E ok \in BOOLEAN :
         /\ exports' = Append(exports,
               [sheet |-> sheets[idx], kind |-> "png",
                path |-> filename \o Png,
                webdriver |-> WebdriverArg(web_driver),
                title |-> bkplot.title, ok |-> ok])
         /\ log' = IF ok THEN log
                   ELSE Append(log, LogRec("exception", None, "png"))
         /\ IF AfterExportPng(ok) = "except"
            THEN Raise("png")
            ELSE /\ pc' = AfterExportPng(ok)
                 /\ UNCHANGED <<exc, calls>>
    /\ UNCHANGED <<entry, argFile, argDir, sheets, cfg, file, output_dir, idx,
                   filename, web_driver, made, quits, bkplot, sankey_list,
                   dir_exists, target, pages, result, fmtVars>>

\* lines 245-249: output_backend = 'svg', export_svgs inside try / except
ExportSvg ==
    /\ pc = "svg"
    /\ bkplot' = [bkplot EXCEPT !.output_backend = "svg"]
    /\ \E ok \in BOOLEAN :
         /\ exports' = Append(exports,
               [sheet |-> sheets[idx], kind |-> "svg",
                path |-> filename \o Svg,
                webdriver |-> WebdriverArg(web_driver),
                title |-> bkplot.title, ok |-> ok])
         /\ log' = IF ok THEN log
                   ELSE Append(log, LogRec("exception", None, "svg"))
         /\ IF AfterExportSvg(ok) = "except"
            THEN Raise("svg")
            ELSE /\ pc' = AfterExportSvg(ok)
                 /\ UNCHANGED <<exc, calls>>
    /\ UNCHANGED <<entry, argFile, argDir, sheets, cfg, file, output_dir, idx,
                   filename, web_driver, made, quits, sankey_list,
                   dir_exists, target, pages, result, fmtVars>>

\* lines 251-252: quit the webdriver after using it
Quit ==
    /\ pc = "quit"
    /\ quits' = IF ShouldQuit(web_driver) THEN Append(quits, web_driver)
                ELSE quits
    /\ pc' = "page"
    /\ UNCHANGED <<entry, argFile, argDir, sheets, cfg, file, output_dir, idx,
                   filename, web_driver, made, calls, exc, bkplot, sankey_list,
                   dir_exists, exports, target, pages, log, result, fmtVars>>

\* lines 254-262: title and sizing mode for html, output_file(filename+'.html')
Page ==
    /\ pc = "page"
    /\ \E ok \in BOOLEAN :
         IF ok
         THEN /\ bkplot' = [bkplot EXCEPT
                              !.title = PageTitle(sheets[idx], bkplot),
                              !.sizing_mode = "stretch_width"]
              /\ target' = Some([path |-> filename \o Html,
                                 title |-> Str(sheets[idx])])
              /\ pc' = "show"
              /\ UNCHANGED <<exc, calls>>
         ELSE /\ UNCHANGED <<bkplot, target>>
              /\ Raise("page")
    /\ UNCHANGED <<entry, argFile, argDir, sheets, cfg, file, output_dir, idx,
                   filename, web_driver, made, quits, sankey_list, dir_exists,
                   exports, pages, log, result, fmtVars>>

\* lines 264-267 and 103-104: show(bkplot) if show_plot; return bkplot;
\* the caller appends it to sankey_list
ShowReturn ==
    /\ pc = "show"
    /\ pages' = IF cfg.show_plot
                THEN pages \cup { [path |-> target[1].path,
                                   title |-> target[1].title,
                                   content |-> <<bkplot>>] }
                ELSE pages
    /\ sankey_list' = AddResult(sankey_list, bkplot)
    /\ web_driver' = None
    /\ bkplot' = NoPlot
    /\ pc' = "loop"
    /\ UNCHANGED <<entry, argFile, argDir, sheets, cfg, file, output_dir, idx,
                   filename, made, quits, calls, exc, dir_exists, exports,
                   target, log, result, fmtVars>>

\* lines 106-108: except Exception: logger.exception(ex); logger.error(...)
SheetExcept ==
    /\ pc = "except"
    /\ log' = log \o << LogRec("exception", None, exc[1]),
                        LogRec("error", Some(sheets[idx]), exc[1]) >>
    /\ exc' = None
    /\ web_driver' = None
    /\ bkplot' = NoPlot
    /\ pc' = AfterSheetExcept
    /\ UNCHANGED <<entry, argFile, argDir, sheets, cfg, file, output_dir, idx,
                   filename, made, quits, calls, sankey_list, dir_exists,
                   exports, target, pages, result, fmtVars>>

\* lines 110-118: output_file, gridplot, show, return True
Combine ==
    /\ pc = "loop" /\ idx = Len(sheets)
    /\ target' = Some([path |-> CombinedFilename(output_dir, file),
                       title |-> splitext0(file)])
    /\ pages' = pages \cup { [path |-> CombinedFilename(output_dir, file),
                              title |-> splitext0(file),
                              content |-> sankey_list] }
    /\ result' = Some(BatchReturn)
    /\ pc' = "done"
    /\ UNCHANGED <<entry, argFile, argDir, sheets, cfg, file, output_dir, idx,
                   filename, web_driver, made, quits, calls, exc, bkplot,
                   sankey_list, dir_exists, exports, log, fmtVars>>

Init ==
    /\ entry \in {"main", "api"}
    /\ argFile \in Files
    /\ argDir \in Dirs
    /\ sheets \in DfDicts
    /\ cfg \in Configs
    /\ file = << >> /\ output_dir = << >>
    /\ pc = "start"
    /\ idx = 0
    /\ filename = << >>
    /\ web_driver = None
    /\ made = 0
    /\ quits = << >>
    /\ calls = << >>
    /\ exc = None
    /\ bkplot = NoPlot
    /\ sankey_list = << >>
    /\ dir_exists = FALSE
    /\ exports = << >>
    /\ target = None
    /\ pages = {}
    /\ log = << >>
    /\ result = None
    /\ fx = 0 /\ fdecimals = None /\ funit = None /\ fpoint = "."
    /\ fout = None /\ fpc = "idle"

Next ==
    \/ Main
    \/ ApiCall
    \/ LoopNext
    \/ Acquire
    \/ Build
    \/ Makedirs
    \/ ExportPng
    \/ ExportSvg
    \/ Quit
    \/ Page
    \/ ShowReturn
    \/ SheetExcept
    \/ Combine

Spec == Init /\ [][Next]_vars

---------------------------------------------------------------------------
(* fmt, lines 193-203.  A number is an integer count of 10^-Places. *)

Places == MaxDecimals + 1

RECURSIVE Pow10(_)
Pow10(n) == IF n = 0 THEN 1 ELSE 10 * Pow10(n - 1)

\* round half to even to a multiple of u
RoundTo(x, u) ==
    LET q == x \div u
        r == x % u
    IN  IF 2 * r < u THEN q * u
        ELSE IF 2 * r > u THEN (q + 1) * u
        ELSE IF q % 2 = 0 THEN q * u ELSE (q + 1) * u

\* round(x, decimals), line 196
Round(x, decimals) == RoundTo(x, Pow10(Places - decimals))

Abs(x) == IF x < 0 THEN 0 - x ELSE x

RECURSIVE Digits(_)
Digits(n) == IF n < 10 THEN 1 ELSE 1 + Digits(n \div 10)

\* the precision of the presentation type 'n' when none is given
SigDigits == 6

\* f'{x:n}', line 203: the general format keeps SigDigits significant digits
FormatN(x) ==
    IF Digits(Abs(x)) <= SigDigits THEN x
    ELSE RoundTo(x, Pow10(Digits(Abs(x)) - SigDigits))

UnitText(u) == IF u = None THEN "None" ELSE u[1]

\* fmt(x) with the enclosing decimals, unit and the locale's decimal point
fmt(x, decimals, unit, point) ==
    LET x1 == IF decimals # None THEN Round(x, decimals[1]) ELSE x
    IN  IF decimals = None /\ unit = None
        THEN [text |-> FALSE, value |-> x1, point |-> ".", suffix |-> ""]
        ELSE IF decimals = None
        THEN [text |-> TRUE, value |-> x1, point |-> ".",
              suffix |-> " " \o UnitText(unit)]
        ELSE [text |-> TRUE, value |-> FormatN(x1), point |-> point,
              suffix |-> " " \o UnitText(unit)]

XValues == { 0, 5, 1250, 1350, 2675, 0 - 1250, 999995, 12345678 }
DecimalsValues == { None } \cup { Some(d) : d \in 0..MaxDecimals }
UnitValues == { None, Some(""), Some("kW") }
PointValues == { ".", "," }

\* hv.Dimension('Value', value_format=fmt) applies fmt to one value
FmtCall ==
    /\ fpc = "call"
    /\ fout' = Some(fmt(fx, fdecimals, funit, fpoint))
    /\ fpc' = "done"
    /\ UNCHANGED <<fx, fdecimals, funit, fpoint, batchVars>>

InitFmt ==
    /\ entry = "api" /\ argFile = << >> /\ argDir = << >>
    /\ sheets = << >>
    /\ cfg = [show_plot |-> FALSE, export_title |-> FALSE,
              title_max_chars |-> None]
    /\ file = << >> /\ output_dir = << >>
    /\ pc = "idle"
    /\ idx = 0
    /\ filename = << >>
    /\ web_driver = None
    /\ made = 0
    /\ quits = << >>
    /\ calls = << >>
    /\ exc = None
    /\ bkplot = NoPlot
    /\ sankey_list = << >>
    /\ dir_exists = FALSE
    /\ exports = << >>
    /\ target = None
    /\ pages = {}
    /\ log = << >>
    /\ result = None
    /\ fx \in XValues
    /\ fdecimals \in DecimalsValues
    /\ funit \in UnitValues
    /\ fpoint \in PointValues
    /\ fout = None
    /\ fpc = "call"

NextFmt == FmtCall

SpecFmt == InitFmt /\ [][NextFmt]_vars

---------------------------------------------------------------------------
(* C8: the three-way contract of fmt: with decimals unset and unit empty   *)
(* the result is x itself, a number; with decimals unset and a unit it is  *)
(* the unrounded x followed by the unit; otherwise x rounded to decimals   *)
(* places followed by the unit.                                            *)
C8_FmtContract ==
    (fpc = "done" /\ funit # None) =>
        IF fdecimals = None /\ funit[1] = ""
        THEN fout[1] = [text |-> FALSE, value |-> fx, point |-> ".",
                        suffix |-> ""]
        ELSE IF fdecimals = None
        THEN /\ fout[1].text
             /\ fout[1].value = fx
             /\ fout[1].suffix = " " \o funit[1]
        ELSE /\ fout[1].text
             /\ fout[1].value = Round(fx, fdecimals[1])
             /\ fout[1].suffix = " " \o funit[1]

---------------------------------------------------------------------------
(* Helpers of the properties *)

Count(seq, x) == Cardinality({ i \in DOMAIN seq : seq[i] = x })

\* the call of create_and_save_sankey for sheet i has returned or raised
Finished(i) == i < idx \/ (i = idx /\ pc \in {"loop", "done"})

NotRaised(c) == c.raised = None

SheetsOf(seq) == [i \in DOMAIN seq |-> seq[i].sheet]

ExportsOf(sheet, kind) ==
    { k \in DOMAIN exports : exports[k].sheet = sheet /\ exports[k].kind = kind }

CallOf(sheet) == CHOOSE i \in DOMAIN calls : calls[i].sheet = sheet

ErrorsNaming(sheet) ==
    Cardinality({ k \in DOMAIN log :
                    log[k].level = "error" /\ log[k].sheet = Some(sheet) })

CombinedPages ==
    { p \in pages : p.path = CombinedFilename(output_dir, file) }

\* the first n characters of t, all of t when n is unset or n >= Len(t)
FirstChars(t, n) ==
    IF n = None THEN t
    ELSE IF n[1] >= Len(t) THEN t
    ELSE [i \in 1..n[1] |-> t[i]]

---------------------------------------------------------------------------
(* C1: when the batch returns, every webdriver that was acquired has been  *)
(* released (quit) exactly once, whatever failed in between.               *)
C1_ReleasedExactlyOnce ==
    pc = "done" => \A h \in 1..made : Count(quits, Some(h)) = 1

(* C2 as claimed: the webdriver is acquired once per batch, the same one   *)
(* is passed to every export of every sheet, and it is released only after *)
(* the last sheet's exports.                                               *)
C2_AcquiredOncePerBatch ==
    /\ made <= 1
    /\ \A i, j \in DOMAIN exports : exports[i].webdriver = exports[j].webdriver
    /\ quits # << >> =>
         /\ idx = Len(sheets)
         /\ ExportsOf(sheets[idx], "svg") # {}

(* C2 as amended: a webdriver is acquired once per sheet, at the start of  *)
(* that sheet's call and before its exports; each acquisition yields a     *)
(* fresh webdriver; the webdriver passed to the raster and vector exports  *)
(* of a sheet is the one acquired in that sheet's call (None when the      *)
(* acquisition failed); a webdriver is released only after the vector      *)
(* export of its own sheet was attempted and before the next sheet is      *)
(* started.                                                                *)
C2_AcquiredOncePerSheet ==
    /\ Len(calls) = idx
    /\ made = Cardinality({ i \in DOMAIN calls : calls[i].web_driver # None })
    /\ \A i, j \in DOMAIN calls :
         (i < j /\ calls[j].web_driver # None) =>
            calls[i].web_driver # calls[j].web_driver
    /\ \A k \in DOMAIN exports :
         /\ exports[k].webdriver = calls[CallOf(exports[k].sheet)].web_driver
         /\ CallOf(exports[k].sheet) = idx => pc \notin {"acquire", "build"}
    /\ \A q \in DOMAIN quits :
         \E i \in DOMAIN calls :
            /\ calls[i].web_driver = quits[q]
            /\ ExportsOf(calls[i].sheet, "svg") # {}
    /\ pc = "acquire" => \A i \in 1..(idx - 1) :
         (calls[i].web_driver # None /\ calls[i].raised = None) =>
            Count(quits, calls[i].web_driver) = 1

C2_Witness ==
    /\ pc = "png" /\ idx = 2
    /\ calls[1].web_driver # None /\ calls[2].web_driver # None
    /\ Count(quits, calls[1].web_driver) = 1
    /\ \E k \in DOMAIN exports : exports[k].webdriver = calls[1].web_driver

(* C3: whatever subset of sheets raises, every sheet is processed in the   *)
(* iteration order of df_dict, the list handed to the combined page is     *)
(* exactly the plots of the sheets that did not raise, in that order, and  *)
(* exactly one error naming the sheet is logged per sheet that raised.     *)
C3_FailedSheetsIsolated ==
    /\ \A i \in DOMAIN calls : calls[i].sheet = sheets[i]
    /\ pc \in {"loop", "done"} =>
         /\ SheetsOf(sankey_list) = SheetsOf(SelectSeq(calls, NotRaised))
         /\ \A i \in DOMAIN calls :
              ErrorsNaming(calls[i].sheet) =
                 IF calls[i].raised = None THEN 0 ELSE 1
    /\ pc = "done" =>
         /\ Len(calls) = Len(sheets)
         /\ \A p \in CombinedPages :
              SheetsOf(p.content) = SheetsOf(SelectSeq(calls, NotRaised))

C3_Witness ==
    /\ pc = "done" /\ Len(sheets) = 2
    /\ calls[1].raised # None /\ calls[2].raised = None
    /\ Len(sankey_list) = 1 /\ sankey_list[1].sheet = sheets[2]
    /\ ErrorsNaming(sheets[1]) = 1

(* C4: no exception of a sheet leaves the batch call and the result is     *)
(* never false; when the call returns, the combined page has been          *)
(* registered and rendered with the list of plots (empty when every sheet  *)
(* failed or df_dict is empty) and the result is True.                     *)
C4_BatchAlwaysSucceeds ==
    /\ pc # "raised"
    /\ result # Some(FALSE)
    /\ (pc = "loop" /\ idx = Len(sheets)) => exc = None
    /\ pc = "done" =>
         /\ result = Some(TRUE)
         /\ target = Some([path |-> CombinedFilename(output_dir, file),
                           title |-> splitext0(file)])
         /\ \E p \in CombinedPages : p.content = sankey_list
         /\ (\A i \in DOMAIN calls : calls[i].raised # None) =>
               sankey_list = << >>

C4_Witness ==
    /\ pc = "done" /\ Len(sheets) = 2
    /\ \A i \in DOMAIN calls : calls[i].raised # None
    /\ result = Some(TRUE)
    /\ \E p \in CombinedPages : p.content = << >>

C6_TitleTruncation ==
    /\ \A k \in DOMAIN exports :
         cfg.export_title =>
            exports[k].title = FirstChars(exports[k].sheet, cfg.title_max_chars)
    /\ \A j \in DOMAIN sankey_list :
         sankey_list[j].title = sankey_list[j].sheet
    /\ \A p \in pages : \A j \in DOMAIN p.content :
         p.content[j].title = p.content[j].sheet

C6_Witness ==
    /\ pc = "done" /\ cfg.export_title /\ cfg.title_max_chars = Some(2)
    /\ \E k \in DOMAIN exports :
         /\ Len(exports[k].sheet) = 3
         /\ exports[k].kind = "svg"
         /\ exports[k].title = <<"C", "c">>
         /\ \E p \in CombinedPages : \E j \in DOMAIN p.content :
               p.content[j].title = <<"C", "c", "c">>

(* C7: with show_plot off, when the batch returns every sheet whose plot   *)
(* was built and exported has a standalone page '<label> <sheet>.html',    *)
(* besides the combined page '<label>.html'.                               *)
C7_StandalonePages ==
    (pc = "done" /\ ~cfg.show_plot) =>
        /\ CombinedPages # {}
        /\ \A j \in DOMAIN sankey_list :
             \E p \in pages :
                p.path = SheetFilename(output_dir, file, sankey_list[j].sheet)
                            \o Html

(* C9: started through main() with --file F and --output_dir D, every      *)
(* artifact of a sheet is written in D with base name '<label> <sheet>'    *)
(* and the combined page is D/'<label>.html', <label> being the base name  *)
(* of F without its extension.                                             *)
C9_MainOutputPaths ==
    entry = "main" =>
        /\ \A k \in DOMAIN exports :
             exports[k].path =
                join(argDir, splitext0(basename(argFile)) \o <<" ">>
                                \o exports[k].sheet)
                   \o (IF exports[k].kind = "png" THEN Png ELSE Svg)
        /\ pc = "done" =>
             \E p \in pages :
                p.path = join(argDir, splitext0(basename(argFile)) \o Html)

(* C10: when the acquisition of the webdriver fails, the failure is logged *)
(* and the call goes on with None: the plot is built, both exports are     *)
(* attempted with None and their failures stay isolated, the page target   *)
(* is registered, the plot reaches the combined page, and quit() is never  *)
(* called on None.                                                         *)
C10_DegradedMode ==
    /\ Count(quits, None) = 0
    /\ Cardinality({ k \in DOMAIN log : log[k].cause = "webdriver" }) =
       Cardinality({ i \in DOMAIN calls :
                       /\ calls[i].web_driver = None
                       /\ ~(i = idx /\ pc = "acquire") })
    /\ \A i \in DOMAIN calls :
         (calls[i].web_driver = None /\ ~(i = idx /\ pc = "acquire")) =>
            /\ \A k \in DOMAIN exports :
                 exports[k].sheet = calls[i].sheet => exports[k].webdriver = None
            /\ calls[i].raised \notin {Some("png"), Some("svg")}
            /\ (i = idx /\ pc = "show") =>
                 target = Some([path |-> filename \o Html,
                                title |-> sheets[idx]])
            /\ (Finished(i) /\ calls[i].raised = None) =>
                 /\ ExportsOf(calls[i].sheet, "png") # {}
                 /\ ExportsOf(calls[i].sheet, "svg") # {}
                 /\ \E j \in DOMAIN sankey_list :
                       sankey_list[j].sheet = calls[i].sheet
                 /\ pc = "done" =>
                       \E p \in CombinedPages : \E j \in DOMAIN p.content :
                          p.content[j].sheet = calls[i].sheet

C10_Witness ==
    /\ pc = "done" /\ idx >= 1
    /\ calls[1].web_driver = None /\ calls[1].raised = None
    /\ \E k \in DOMAIN exports :
         /\ exports[k].sheet = calls[1].sheet /\ exports[k].webdriver = None
         /\ ~exports[k].ok
    /\ \E p \in CombinedPages : \E j \in DOMAIN p.content :
          p.content[j].sheet = calls[1].sheet

====
